---- MODULE Spec2Model ----
(***************************************************************************)
(* PubSubClient (pubsub/client.py): a facade over the Pub/Sub REST API.    *)
(* Every facade method is one or two remote calls.  The model has two      *)
(* client objects and the broker they talk to.  A method is one action;    *)
(* the check-then-create methods (create_topic, subscribe) are two, the    *)
(* lookup and the create, so that other clients may act in between.  Each  *)
(* remote call ends with the status the broker's state gives it or with    *)
(* a failure status of the transport.                                      *)
(***************************************************************************)
EXTENDS Integers, Sequences, FiniteSets, TLC

\* ------------------------------------------------------------------ bounds
\* Longest message payload, in bytes.
MaxLen == 2

\* Longest payload of the round trip, in bytes.
CodecMaxLen == 3

\* ------------------------------------------------------- program constants
PUBSUB_SCOPE == "https://www.googleapis.com/auth/pubsub"
NOT_FOUND == 404

\* ------------------------------------------------- environment parameters
\* The status of a call whose execute() returns normally, the status of a
\* create of a resource that already exists, and a failure that is not 404.
OK == 200
CONFLICT == 409
BAD_REQUEST == 400

\* Python's None, and the falsy empty string.
None == "None"
Empty == ""

Clients == {"c1", "c2"}
Projects == {"project", "lab"}
TopicNames == {"foo", "bar"}
SubscriptionNames == {"foo"}
Endpoints == {None, "https://baz.com"}
AckIds == {"abc", None}
\* Message payloads: every sequence of at most MaxLen of these bytes.
ByteVals == {0, 255}
Messages == UNION {[1..n -> ByteVals] : n \in 0..MaxLen}
\* Statuses the transport may report whatever the broker's state is.
FaultStatuses == {NOT_FOUND, BAD_REQUEST}

\* ------------------------------------------------------------------ base64
\* Text is a sequence of alphabet indices 0..63; PAD stands for "=".
PAD == 64

RECURSIVE b64encode(_)
b64encode(s) ==
    IF Len(s) = 0 THEN << >>
    ELSE IF Len(s) = 1 THEN
        << s[1] \div 4, (s[1] % 4) * 16, PAD, PAD >>
    ELSE IF Len(s) = 2 THEN
        << s[1] \div 4, (s[1] % 4) * 16 + (s[2] \div 16), (s[2] % 16) * 4, PAD >>
    ELSE
        << s[1] \div 4, (s[1] % 4) * 16 + (s[2] \div 16),
           (s[2] % 16) * 4 + (s[3] \div 64), s[3] % 64 >>
        \o b64encode(SubSeq(s, 4, Len(s)))

mutant_DecodeQuad(q) ==
    IF q[3] = PAD THEN << q[1] * 4 + (q[2] \div 16) >>
    ELSE IF q[4] = PAD THEN
        << q[1] * 4 + (q[2] \div 16), (q[2] % 16) * 16 + (q[3] \div 4) >>
    ELSE << q[1] * 4 + (q[2] \div 16), (q[2] % 16) * 16 + (q[3] \div 4),
            q[4] >>

\* The bytes of one group of four characters; the group is well formed.
DecodeQuad(q) ==
    IF q[3] = PAD THEN << q[1] * 4 + (q[2] \div 16) >>
    ELSE IF q[4] = PAD THEN
        << q[1] * 4 + (q[2] \div 16), (q[2] % 16) * 16 + (q[3] \div 4) >>
    ELSE << q[1] * 4 + (q[2] \div 16), (q[2] % 16) * 16 + (q[3] \div 4),
            (q[3] % 4) * 64 + q[4] >>

\* Padding may only close the last group: "xx==" or "xxx=".
QuadOk(q, last) ==
    /\ q[1] # PAD /\ q[2] # PAD
    /\ (q[3] = PAD => q[4] = PAD)
    /\ (q[4] = PAD => last)

RECURSIVE DecodeQuads(_)
DecodeQuads(t) ==
    IF Len(t) = 0 THEN << >>
    ELSE DecodeQuad(SubSeq(t, 1, 4)) \o DecodeQuads(SubSeq(t, 5, Len(t)))

WellPadded(t) ==
    /\ Len(t) % 4 = 0
    /\ \A i \in 1..(Len(t) \div 4) :
          QuadOk(SubSeq(t, 4 * i - 3, 4 * i), i = Len(t) \div 4)

\* base64.b64decode: the bytes, or TypeError ("Incorrect padding").
b64decode(t) ==
    IF WellPadded(t) THEN [ok |-> TRUE, bytes |-> DecodeQuads(t)]
    ELSE [ok |-> FALSE, bytes |-> << >>]

\* Payload texts a pull response may carry: what publish can have sent, and
\* a truncated text ("Zg" without its padding).
WireData == {b64encode(m) : m \in Messages} \cup {<<25, 32>>}

\* ------------------------------------------------------------- scoped names
mutant_full_topic_name(project_id, name) == "/topics/" \o name

_full_topic_name(project_id, name) ==
    "/topics/" \o project_id \o "/" \o name

_full_subscription_name(project_id, name) ==
    "/subscriptions/" \o project_id \o "/" \o name

\* ------------------------------------------------------------------- state
VARIABLES
    pc,             \* per client: "new", "idle", the next step of its call,
                    \*   or "done" when the call has just completed
    ctor,           \* per client: the last get_client call and what it did
    project_id,     \* PubSubClient.project_id
    pubsub,         \* PubSubClient.pubsub, the service handle
    op,             \* per client: the facade method running or just run
    args,           \* per client: its arguments
    calls,          \* per client: the remote calls it has issued, in order
    resp,           \* per client: the response of its pull call
    result,         \* per client: how its call ended
    prev,           \* per client: summary of its call before the current
                    \*   one, when that was a create_topic
    quiet,          \* per client: no other client has acted since this
                    \*   client's current call started
    topics,         \* broker: the topics that exist (scoped names)
    subscriptions   \* broker: the subscriptions that exist (create bodies)

vars == << pc, ctor, project_id, pubsub, op, args, calls, resp, result, prev,
           quiet, topics, subscriptions >>

Truthy(x) == x \notin {None, Empty}

NoService == [name |-> None, version |-> None, http |-> None]
NoCtor == [project_id |-> None, credentials |-> None, service_account |-> None,
           private_key |-> None, raised |-> "no", steps |-> << >>]
NoArgs == [name |-> None, topic |-> None, endpoint |-> None, message |-> << >>,
           subscription |-> None, block |-> FALSE]
NoResp == [event |-> "missing", message |-> "missing", data |-> << >>,
           ackId |-> None]
NoResult == [kind |-> "none", status |-> 0, hasValue |-> FALSE, value |-> << >>]
NoPrev == [op |-> "none", name |-> None, kind |-> "none", quiet |-> FALSE]

\* How a call ends: it returns (None, or pull's payload) or raises.
Return == [kind |-> "return", status |-> 0, hasValue |-> FALSE, value |-> << >>]
ReturnValue(v) == [kind |-> "return", status |-> 0, hasValue |-> TRUE, value |-> v]
Raise(kind, status) == [kind |-> kind, status |-> status, hasValue |-> FALSE,
                        value |-> << >>]

\* One remote call: request.execute() with the status it ended with.
Call(api, arg, status, injected) ==
    [api |-> api, arg |-> arg, status |-> status, injected |-> injected]

\* The statuses a call may end with when the broker's own answer is `own`.
Outcomes(own) == {own} \cup FaultStatuses

\* Broker states a behaviour may start from.
InitTopics == {{}, {_full_topic_name("project", "foo")}}
InitSubscriptions ==
    {{}, {[name |-> _full_subscription_name("project", "foo"),
           topic |-> _full_topic_name("project", "foo"),
           pushConfig |-> [pushEndpoint |-> None]]}}

Init ==
    /\ pc = [c \in Clients |-> "new"]
    /\ ctor = [c \in Clients |-> NoCtor]
    /\ project_id = [c \in Clients |-> None]
    /\ pubsub = [c \in Clients |-> NoService]
    /\ op = [c \in Clients |-> "none"]
    /\ args = [c \in Clients |-> NoArgs]
    /\ calls = [c \in Clients |-> << >>]
    /\ resp = [c \in Clients |-> NoResp]
    /\ result = [c \in Clients |-> NoResult]
    /\ prev = [c \in Clients |-> NoPrev]
    /\ quiet = [c \in Clients |-> FALSE]
    /\ topics \in InitTopics
    /\ subscriptions \in InitSubscriptions

\* ------------------------------------------------- bookkeeping of a call
\* op, args, calls, resp and result record the call a client is in or has
\* just completed.  A completed call stays on record (pc = "done") until
\* its caller takes the result, which it does before anything else happens.
NoneDone == \A d \in Clients : pc[d] # "done"

Upd(f, c, v) == [f EXCEPT ![c] = v]

\* A step of client c ends the quiet of every other client.
Keep(c) ==
    /\ prev' = [d \in Clients |-> IF d = c THEN prev[c] ELSE NoPrev]
    /\ quiet' = [d \in Clients |-> d = c /\ quiet[c]]
    /\ UNCHANGED << op, args >>

\* Client c enters facade method o with arguments a.
Entered(c, o, a) ==
    /\ pc[c] = "idle"
    /\ op' = Upd(op, c, o)
    /\ args' = Upd(args, c, a)
    /\ prev' = [d \in Clients |-> IF d = c THEN prev[c] ELSE NoPrev]
    /\ quiet' = [d \in Clients |-> d = c]
    /\ UNCHANGED << ctor, project_id, pubsub >>

\* Client c starts facade method o with arguments a.
Started(c, o, a) == NoneDone /\ Entered(c, o, a)

\* Client c takes a later step of the method it is in.
Continued(c, step) ==
    /\ NoneDone
    /\ pc[c] = step
    /\ Keep(c)
    /\ UNCHANGED << ctor, project_id, pubsub >>

Ended(c, r) ==
    /\ pc' = [pc EXCEPT ![c] = "done"]
    /\ result' = Upd(result, c, r)

Goes(c, step) ==
    /\ pc' = [pc EXCEPT ![c] = step]
    /\ result' = Upd(result, c, NoResult)

\* The caller of client c takes the result and is free to call again.  The
\* call leaves the record; prev remembers a create_topic.
returned(c) ==
    /\ pc[c] = "done"
    /\ pc' = [pc EXCEPT ![c] = "idle"]
    /\ op' = Upd(op, c, "none")
    /\ args' = Upd(args, c, NoArgs)
    /\ calls' = Upd(calls, c, << >>)
    /\ resp' = Upd(resp, c, NoResp)
    /\ result' = Upd(result, c, NoResult)
    /\ prev' = [prev EXCEPT ![c] =
           IF op[c] = "create_topic"
           THEN [op |-> op[c], name |-> args[c].name,
                 kind |-> result[c].kind, quiet |-> quiet[c]]
           ELSE NoPrev]
    /\ quiet' = [quiet EXCEPT ![c] = FALSE]
    /\ UNCHANGED << ctor, project_id, pubsub, topics, subscriptions >>

\* ------------------------------------------------------------------ broker
HasSubscription(full) == \E s \in subscriptions : s.name = full

\* -------------------------------------------------------------- get_client
mutant_get_client_raises(credentials, service_account, private_key) ==
    ~(Truthy(service_account) /\ Truthy(private_key))

\* The check that opens get_client.
get_client_raises(credentials, service_account, private_key) ==
    ~Truthy(credentials) /\ ~(Truthy(service_account) /\ Truthy(private_key))

\* The assert that opens _get_pubsub_service.
service_assert(credentials, service_account, private_key) ==
    Truthy(credentials) \/ (Truthy(service_account) /\ Truthy(private_key))

SignedJwtAssertionCredentials(service_account, private_key, scope) ==
    "jwt(" \o service_account \o "," \o private_key \o "," \o scope \o ")"

\* _get_pubsub_service: the credentials it authorizes with, the steps it
\* takes (credential class, transport, authorization, discovery) and the
\* service it builds.
ServiceCredentials(credentials, service_account, private_key) ==
    IF ~Truthy(credentials)
    THEN SignedJwtAssertionCredentials(service_account, private_key, PUBSUB_SCOPE)
    ELSE credentials

ServiceSteps(credentials) ==
    (IF ~Truthy(credentials) THEN << "_credentials" >> ELSE << >>)
    \o << "Http", "authorize", "build" >>

_get_pubsub_service(credentials, service_account, private_key) ==
    [name |-> "pubsub", version |-> "v1beta1",
     http |-> ServiceCredentials(credentials, service_account, private_key)]

CtorRecord(p, credentials, service_account, private_key, raised, steps) ==
    [project_id |-> p, credentials |-> credentials,
     service_account |-> service_account, private_key |-> private_key,
     raised |-> raised, steps |-> steps]

get_client(c, p, credentials, service_account, private_key) ==
    /\ NoneDone
    /\ pc[c] = "new"
    /\ IF get_client_raises(credentials, service_account, private_key)
       THEN /\ ctor' = [ctor EXCEPT ![c] =
                   CtorRecord(p, credentials, service_account, private_key,
                              "Exception", << >>)]
            /\ UNCHANGED << pc, project_id, pubsub >>
       ELSE IF ~service_assert(credentials, service_account, private_key)
       THEN /\ ctor' = [ctor EXCEPT ![c] =
                   CtorRecord(p, credentials, service_account, private_key,
                              "AssertionError", << >>)]
            /\ UNCHANGED << pc, project_id, pubsub >>
       ELSE /\ ctor' = [ctor EXCEPT ![c] =
                   CtorRecord(p, credentials, service_account, private_key,
                              "no", ServiceSteps(credentials))]
            /\ pubsub' = [pubsub EXCEPT ![c] =
                   _get_pubsub_service(credentials, service_account, private_key)]
            /\ project_id' = [project_id EXCEPT ![c] = p]
            /\ pc' = [pc EXCEPT ![c] = "idle"]
    /\ Keep(c)
    /\ UNCHANGED << calls, resp, result, topics, subscriptions >>

\* ------------------------------------------------------------ create_topic
mutant_create_topic_except(status) == "create"

\* The except clause of create_topic: what a failed lookup leads to.
create_topic_except(status) ==
    IF status = NOT_FOUND THEN "create" ELSE "raise"

mutant_create_topic_found(status) == "create"

\* A lookup that succeeds ends create_topic.
create_topic_found(status) == "return"

create_topic_body(full) == [name |-> full]

create_topic(c, name) ==
    /\ Started(c, "create_topic", [NoArgs EXCEPT !.name = name])
    /\ LET full == _full_topic_name(project_id[c], name)
           own == IF full \in topics THEN OK ELSE NOT_FOUND
       IN \E st \in Outcomes(own) :
           LET next == IF st = OK THEN create_topic_found(st)
                       ELSE create_topic_except(st)
           IN /\ calls' = Upd(calls, c,
                     << Call("topics.get", [topic |-> full], st, st # own) >>)
              /\ CASE next = "return" -> Ended(c, Return)
                   [] next = "create" -> Goes(c, "create_topic_create")
                   [] OTHER -> Ended(c, Raise("HttpError", st))
    /\ resp' = Upd(resp, c, NoResp)
    /\ UNCHANGED << topics, subscriptions >>

create_topic_create(c) ==
    /\ Continued(c, "create_topic_create")
    /\ LET full == _full_topic_name(project_id[c], args[c].name)
           own == IF full \in topics THEN CONFLICT ELSE OK
       IN \E st \in Outcomes(own) :
           /\ calls' = Upd(calls, c, Append(calls[c],
                  Call("topics.create", [body |-> create_topic_body(full)],
                       st, st # own)))
           /\ topics' = IF st = OK THEN topics \cup {full} ELSE topics
           /\ IF st = OK THEN Ended(c, Return)
              ELSE Ended(c, Raise("HttpError", st))
    /\ UNCHANGED resp
    /\ UNCHANGED subscriptions

\* ------------------------------------------------------------ delete_topic
mutant_delete_topic_except(status) == "raise"

\* The except clause of delete_topic.
delete_topic_except(status) ==
    IF status = NOT_FOUND THEN "return" ELSE "raise"

delete_topic(c, name) ==
    /\ Started(c, "delete_topic", [NoArgs EXCEPT !.name = name])
    /\ LET full == _full_topic_name(project_id[c], name)
           own == IF full \in topics THEN OK ELSE NOT_FOUND
       IN \E st \in Outcomes(own) :
           /\ calls' = Upd(calls, c,
                  << Call("topics.delete", [topic |-> full], st, st # own) >>)
           /\ topics' = IF st = OK THEN topics \ {full} ELSE topics
           /\ IF st = OK \/ delete_topic_except(st) = "return"
              THEN Ended(c, Return)
              ELSE Ended(c, Raise("HttpError", st))
    /\ resp' = Upd(resp, c, NoResp)
    /\ UNCHANGED subscriptions

\* --------------------------------------------------------------- subscribe
\* The except clause of subscribe.
subscribe_except(status) ==
    IF status = NOT_FOUND THEN "create" ELSE "raise"

mutant_subscribe_body(p, full, topic, endpoint) ==
    [name |-> full, topic |-> topic,
     pushConfig |-> [pushEndpoint |-> endpoint]]

subscribe_body(p, full, topic, endpoint) ==
    [name |-> full, topic |-> _full_topic_name(p, topic),
     pushConfig |-> [pushEndpoint |-> endpoint]]

subscribe(c, name, topic, endpoint) ==
    /\ Started(c, "subscribe",
               [NoArgs EXCEPT !.name = name, !.topic = topic,
                              !.endpoint = endpoint])
    /\ LET full == _full_subscription_name(project_id[c], name)
           own == IF HasSubscription(full) THEN OK ELSE NOT_FOUND
       IN \E st \in Outcomes(own) :
           /\ calls' = Upd(calls, c,
                  << Call("subscriptions.get", [subscription |-> full],
                          st, st # own) >>)
           /\ CASE st = OK -> Ended(c, Return)
                [] st # OK /\ subscribe_except(st) = "create" ->
                       Goes(c, "subscribe_create")
                [] OTHER -> Ended(c, Raise("HttpError", st))
    /\ resp' = Upd(resp, c, NoResp)
    /\ UNCHANGED << topics, subscriptions >>

subscribe_create(c) ==
    /\ Continued(c, "subscribe_create")
    /\ LET full == _full_subscription_name(project_id[c], args[c].name)
           body == subscribe_body(project_id[c], full, args[c].topic,
                                  args[c].endpoint)
           own == IF HasSubscription(full) THEN CONFLICT ELSE OK
       IN \E st \in Outcomes(own) :
           /\ calls' = Upd(calls, c, Append(calls[c],
                  Call("subscriptions.create", [body |-> body], st, st # own)))
           /\ subscriptions' = IF st = OK THEN subscriptions \cup {body}
                               ELSE subscriptions
           /\ IF st = OK THEN Ended(c, Return)
              ELSE Ended(c, Raise("HttpError", st))
    /\ UNCHANGED resp
    /\ UNCHANGED topics

\* ------------------------------------------------------------- unsubscribe
\* The except clause of unsubscribe.
unsubscribe_except(status) ==
    IF status = NOT_FOUND THEN "return" ELSE "raise"

unsubscribe(c, name) ==
    /\ Started(c, "unsubscribe", [NoArgs EXCEPT !.name = name])
    /\ LET full == _full_subscription_name(project_id[c], name)
           own == IF HasSubscription(full) THEN OK ELSE NOT_FOUND
       IN \E st \in Outcomes(own) :
           /\ calls' = Upd(calls, c,
                  << Call("subscriptions.delete", [subscription |-> full],
                          st, st # own) >>)
           /\ subscriptions' =
                  IF st = OK THEN {s \in subscriptions : s.name # full}
                  ELSE subscriptions
           /\ IF st = OK \/ unsubscribe_except(st) = "return"
              THEN Ended(c, Return)
              ELSE Ended(c, Raise("HttpError", st))
    /\ resp' = Upd(resp, c, NoResp)
    /\ UNCHANGED topics

\* ----------------------------------------------------------------- publish
mutant_publish_body(full, message) ==
    [topic |-> full, message |-> [data |-> message]]

publish_body(full, message) ==
    [topic |-> full, message |-> [data |-> b64encode(message)]]

publish(c, topic, message) ==
    /\ Started(c, "publish",
               [NoArgs EXCEPT !.topic = topic, !.message = message])
    /\ LET full == _full_topic_name(project_id[c], topic)
           own == IF full \in topics THEN OK ELSE NOT_FOUND
       IN \E st \in Outcomes(own) :
           /\ calls' = Upd(calls, c,
                  << Call("topics.publish",
                          [body |-> publish_body(full, message)],
                          st, st # own) >>)
           /\ IF st = OK THEN Ended(c, Return)
              ELSE Ended(c, Raise("HttpError", st))
    /\ resp' = Upd(resp, c, NoResp)
    /\ UNCHANGED << topics, subscriptions >>

\* -------------------------------------------------------------------- pull
\* The responses a successful pull call may carry.  event: whether the
\* 'pubsubEvent' entry is there; message: the 'message' entry is missing,
\* empty ({} or None), a dictionary without 'data', or one with 'data'.
Responses ==
    ([event : {"missing"}, message : {"missing"}, data : {<< >>},
      ackId : AckIds])
    \cup ([event : {"present"}, message : {"missing", "empty", "nodata"},
           data : {<< >>}, ackId : AckIds])
    \cup ([event : {"present"}, message : {"data"}, data : WireData,
           ackId : AckIds])

mutant_pull_body(full, block) ==
    [subscription |-> full, returnImmediately |-> block]

pull_body(full, block) ==
    [subscription |-> full, returnImmediately |-> ~block]

\* resp.get('pubsubEvent').get('message') raises when the first get is None.
pull_message_raises(r) == r.event = "missing"

\* `if message:`
message_truthy(r) == r.message \in {"nodata", "data"}

ack_body(full, r) == [subscription |-> full, ackId |-> << r.ackId >>]

mutant_pull_acknowledge_next(status) == "pull_return"

\* The acknowledge call is not guarded: its error leaves pull before the
\* return statement is reached.
pull_acknowledge_next(status) ==
    IF status = OK THEN "pull_return" ELSE "raise"

\* base64.b64decode(message.get('data'))
pull_decode(r) ==
    IF r.message = "data" THEN b64decode(r.data)
    ELSE [ok |-> FALSE, bytes |-> << >>]

\* How pull ends once the pull call has answered r and, when r carries a
\* message, the acknowledge call has ended with ack_status.
pull_result(r, ack_status) ==
    IF pull_message_raises(r) THEN Raise("AttributeError", 0)
    ELSE IF ~message_truthy(r) THEN Return
    ELSE IF pull_acknowledge_next(ack_status) = "raise"
         THEN Raise("HttpError", ack_status)
    ELSE IF pull_decode(r).ok THEN ReturnValue(pull_decode(r).bytes)
    ELSE Raise("TypeError", 0)

\* The remote calls pull issues after the pull call itself.
pull_ack_calls(full, r, ack_status, injected) ==
    IF ~pull_message_raises(r) /\ message_truthy(r)
    THEN << Call("subscriptions.acknowledge", [body |-> ack_body(full, r)],
                 ack_status, injected) >>
    ELSE << >>

\* pull, when the pull call, if it succeeds, answers one of `responses`.
pull_answered(c, subscription, block, responses) ==
    /\ Entered(c, "pull",
               [NoArgs EXCEPT !.subscription = subscription, !.block = block])
    /\ LET full == _full_subscription_name(project_id[c], subscription)
           own == IF HasSubscription(full) THEN OK ELSE NOT_FOUND
       IN \E st \in Outcomes(own) :
           LET first == Call("subscriptions.pull",
                             [body |-> pull_body(full, block)], st, st # own)
           IN IF st # OK
              THEN /\ calls' = Upd(calls, c, << first >>)
                   /\ resp' = Upd(resp, c, NoResp)
                   /\ Ended(c, Raise("HttpError", st))
              ELSE \E r \in responses :
                   \E ack \in IF ~pull_message_raises(r) /\ message_truthy(r)
                               THEN Outcomes(OK) ELSE {OK} :
                   /\ resp' = Upd(resp, c, r)
                   /\ calls' = Upd(calls, c,
                          << first >> \o pull_ack_calls(full, r, ack, ack # OK))
                   /\ Ended(c, pull_result(r, ack))
    /\ UNCHANGED << topics, subscriptions >>

pull(c, subscription, block) ==
    /\ NoneDone
    /\ pull_answered(c, subscription, block, Responses)

\* ----------------------------------------------------------- specification
\* Uncoordinated clients of one project, built from ready credentials, call
\* every facade method on every input; their remote calls interleave.
Next ==
    \/ \E c \in Clients : get_client(c, "project", "creds", None, None)
    \/ \E c \in Clients, t \in TopicNames : create_topic(c, t)
    \/ \E c \in Clients : create_topic_create(c)
    \/ \E c \in Clients, t \in TopicNames : delete_topic(c, t)
    \/ \E c \in Clients, n \in SubscriptionNames, t \in TopicNames,
          e \in Endpoints : subscribe(c, n, t, e)
    \/ \E c \in Clients : subscribe_create(c)
    \/ \E c \in Clients, n \in SubscriptionNames : unsubscribe(c, n)
    \/ \E c \in Clients, t \in TopicNames, m \in Messages : publish(c, t, m)
    \/ \E c \in Clients, n \in SubscriptionNames, b \in BOOLEAN : pull(c, n, b)
    \/ \E c \in Clients : returned(c)

Spec == Init /\ [][Next]_vars

\* SpecConstruct: get_client on every combination of its arguments.
Credentials == {None, "creds"}
ServiceAccounts == {None, Empty, "account"}
PrivateKeys == {None, Empty, "key"}

Construct ==
    \E c \in Clients, p \in Projects, cr \in Credentials,
       sa \in ServiceAccounts, pk \in PrivateKeys : get_client(c, p, cr, sa, pk)

SpecConstruct == Init /\ [][Construct]_vars

\* SpecCodec: a payload travels from publish through the broker to pull.
\* Every byte string of up to CodecMaxLen bytes is published.
CodecBytes == {0, 10, 128, 255}
CodecMessages == UNION {[1..n -> CodecBytes] : n \in 0..CodecMaxLen}

\* The publish call on record of client d reached the broker.
Published(d) ==
    /\ pc[d] = "done"
    /\ op[d] = "publish"
    /\ calls[d][1].status = OK

\* The text the broker holds for the publish on record of client d.
PublishedData(d) == calls[d][1].arg.body.message.data

\* The broker hands what it was sent to the subscriptions of the topic,
\* unchanged: the responses to a pull on the subscription named full.
Delivered(d, full) ==
    IF \E s \in subscriptions :
           s.name = full /\ s.topic = calls[d][1].arg.body.topic
    THEN [event : {"present"}, message : {"data"},
          data : {PublishedData(d)}, ackId : AckIds]
    ELSE {}

\* Client c pulls while the publish of client d is on record.
pull_published(c, d, subscription, block) ==
    /\ c # d
    /\ Published(d)
    /\ pull_answered(c, subscription, block,
           Delivered(d, _full_subscription_name(project_id[c], subscription)))

Relay ==
    \/ \E c \in Clients : get_client(c, "project", "creds", None, None)
    \/ \E c \in Clients, t \in TopicNames, m \in CodecMessages :
          publish(c, t, m)
    \/ \E c, d \in Clients, n \in SubscriptionNames, b \in BOOLEAN :
          pull_published(c, d, n, b)
    \/ \E c \in Clients : returned(c)

SpecCodec == Init /\ [][Relay]_vars

TypeOK ==
    /\ pc \in [Clients -> {"new", "idle", "done", "create_topic_create",
                           "subscribe_create"}]
    /\ topics \subseteq {_full_topic_name(p, t) : p \in Projects, t \in TopicNames}

\* ================================================================== claims
\* A completed call of method o by client c is on record.
Done(c, o) == pc[c] = "done" /\ op[c] = o

\* The scoped names, spelt out.
ScopedTopic(c, name) == "/topics/" \o project_id[c] \o "/" \o name
ScopedSubscription(c, name) == "/subscriptions/" \o project_id[c] \o "/" \o name

\* How many of the calls on record went to api.
Issued(c, api) ==
    Cardinality({i \in DOMAIN calls[c] : calls[c][i].api = api})

Raised(c, status) ==
    /\ result[c].kind = "HttpError"
    /\ result[c].status = status
    /\ ~result[c].hasValue

\* C1: create_topic(t) issues exactly one lookup, for '/topics/{project}/t';
\* when the lookup ends 404 it issues exactly one create with body
\* {name: '/topics/{project}/t'} and returns when that create succeeds; when
\* the lookup succeeds it issues no create and returns.
C1_CreateTopicCalls ==
    \A c \in Clients : Done(c, "create_topic") =>
        LET full == ScopedTopic(c, args[c].name)
            cs == calls[c]
        IN /\ Len(cs) >= 1
           /\ cs[1].api = "topics.get"
           /\ cs[1].arg = [topic |-> full]
           /\ Issued(c, "topics.get") = 1
           /\ (cs[1].status = NOT_FOUND =>
                  /\ Len(cs) = 2
                  /\ cs[2].api = "topics.create"
                  /\ cs[2].arg = [body |-> [name |-> full]]
                  /\ (cs[2].status = OK => result[c] = Return))
           /\ (cs[1].status = OK => Len(cs) = 1 /\ result[c] = Return)

C1_Witness ==
    \E c \in Clients :
        /\ Done(c, "create_topic")
        /\ args[c].name = "bar"
        /\ Len(calls[c]) = 2
        /\ calls[c][1].status = NOT_FOUND
        /\ calls[c][2].status = OK
        /\ result[c] = Return
        /\ "/topics/project/bar" \in topics

\* C2: when one client calls create_topic(t) twice in a row, no other
\* client acts from the start of the first call to the end of the second,
\* the first call returns, and the broker answers the second call from its
\* state, then the second call returns, issues no create, and t exists.
C2_CreateTopicIdempotent ==
    \A c \in Clients :
        ( /\ Done(c, "create_topic")
          /\ prev[c].op = "create_topic"
          /\ prev[c].name = args[c].name
          /\ prev[c].kind = "return"
          /\ prev[c].quiet
          /\ quiet[c]
          /\ \A i \in DOMAIN calls[c] : ~calls[c][i].injected )
        => /\ result[c] = Return
           /\ Issued(c, "topics.create") = 0
           /\ ScopedTopic(c, args[c].name) \in topics

C2_Witness ==
    \E c \in Clients :
        /\ Done(c, "create_topic")
        /\ prev[c] = [op |-> "create_topic", name |-> args[c].name,
                      kind |-> "return", quiet |-> TRUE]
        /\ quiet[c]
        /\ \A i \in DOMAIN calls[c] : ~calls[c][i].injected
        /\ result[c] = Return
        /\ \E d \in Clients : d # c /\ pc[d] = "idle"

\* C3: delete_topic(name) and unsubscribe(name) each issue exactly one
\* remote call, a delete of the scoped name, never a lookup, and return both
\* when the delete succeeds and when it ends 404.
C3_DeleteOnce ==
    \A c \in Clients :
        /\ Done(c, "delete_topic") =>
              /\ Len(calls[c]) = 1
              /\ calls[c][1].api = "topics.delete"
              /\ calls[c][1].arg = [topic |-> ScopedTopic(c, args[c].name)]
              /\ (calls[c][1].status \in {OK, NOT_FOUND} => result[c] = Return)
        /\ Done(c, "unsubscribe") =>
              /\ Len(calls[c]) = 1
              /\ calls[c][1].api = "subscriptions.delete"
              /\ calls[c][1].arg =
                     [subscription |-> ScopedSubscription(c, args[c].name)]
              /\ (calls[c][1].status \in {OK, NOT_FOUND} => result[c] = Return)

\* A delete of an absent topic: the broker's own 404, and a plain return.
C3_Witness ==
    \E c \in Clients :
        /\ Done(c, "delete_topic")
        /\ ScopedTopic(c, args[c].name) \notin topics
        /\ calls[c][1].status = NOT_FOUND
        /\ ~calls[c][1].injected
        /\ result[c] = Return

\* C4: in create_topic, delete_topic, subscribe and unsubscribe, when the
\* first remote call fails with a status other than 404, that error reaches
\* the caller and no further remote call is issued.
C4_OtherErrorsPropagate ==
    \A c \in Clients :
        ( /\ pc[c] = "done"
          /\ op[c] \in {"create_topic", "delete_topic", "subscribe",
                        "unsubscribe"}
          /\ calls[c][1].status \notin {OK, NOT_FOUND} )
        => /\ Raised(c, calls[c][1].status)
           /\ Len(calls[c]) = 1

C4_Witness ==
    \E c \in Clients :
        /\ Done(c, "subscribe")
        /\ calls[c][1].status = BAD_REQUEST
        /\ Raised(c, BAD_REQUEST)
        /\ Len(calls[c]) = 1

\* C5: subscribe(name, topic, endpoint) issues exactly one lookup, for
\* '/subscriptions/{project}/name'; when it ends 404, exactly one create
\* whose body has that name, topic '/topics/{project}/topic' and
\* pushConfig.pushEndpoint = endpoint; when it succeeds, no further call, and
\* the broker's subscriptions are what they were.
C5_Calls ==
    \A c \in Clients : Done(c, "subscribe") =>
        LET full == ScopedSubscription(c, args[c].name)
            cs == calls[c]
        IN /\ Len(cs) >= 1
           /\ cs[1].api = "subscriptions.get"
           /\ cs[1].arg = [subscription |-> full]
           /\ Issued(c, "subscriptions.get") = 1
           /\ (cs[1].status = NOT_FOUND =>
                  /\ Len(cs) = 2
                  /\ cs[2].api = "subscriptions.create"
                  /\ cs[2].arg =
                        [body |-> [name |-> full,
                                   topic |-> ScopedTopic(c, args[c].topic),
                                   pushConfig |->
                                       [pushEndpoint |-> args[c].endpoint]]])
           /\ (cs[1].status = OK => Len(cs) = 1)

C5_Untouched ==
    \A c \in Clients :
        ( /\ pc[c] = "idle" /\ pc'[c] = "done"
          /\ op'[c] = "subscribe"
          /\ calls'[c][1].status = OK )
        => subscriptions' = subscriptions

C5_Subscribe == [](C5_Calls) /\ [][C5_Untouched]_vars

\* An existing subscription to foo without endpoint; subscribe asks for bar
\* with an endpoint, finds the subscription and leaves it alone.
C5_Witness ==
    \E c \in Clients :
        /\ Done(c, "subscribe")
        /\ args[c].topic = "bar"
        /\ args[c].endpoint = "https://baz.com"
        /\ calls[c][1].status = OK
        /\ Len(calls[c]) = 1
        /\ subscriptions = {[name |-> "/subscriptions/project/foo",
                             topic |-> "/topics/project/foo",
                             pushConfig |-> [pushEndpoint |-> None]]}

\* C6: publish(topic, message) issues exactly one remote call, a publish
\* with body {topic: '/topics/{project}/topic', message: {data:
\* base64(message)}}, with no lookup before it; when that call fails, with
\* 404 or any other status, the error reaches the caller.
\* <<255>> is "/w==" and <<0, 255>> is "AP8=" in base64.
C6_Publish ==
    \A c \in Clients : Done(c, "publish") =>
        LET cs == calls[c]
        IN /\ Len(cs) = 1
           /\ cs[1].api = "topics.publish"
           /\ cs[1].arg.body.topic = ScopedTopic(c, args[c].topic)
           /\ cs[1].arg.body.message = [data |-> b64encode(args[c].message)]
           /\ (args[c].message = << 255 >> =>
                  cs[1].arg.body.message.data = << 63, 48, 64, 64 >>)
           /\ (args[c].message = << 0, 255 >> =>
                  cs[1].arg.body.message.data = << 0, 15, 60, 64 >>)
           /\ (cs[1].status # OK => Raised(c, cs[1].status))
           /\ (cs[1].status = OK => result[c] = Return)

\* A publish to a topic that does not exist: the broker's 404 is raised.
C6_Witness ==
    \E c \in Clients :
        /\ Done(c, "publish")
        /\ args[c].message = << 0, 255 >>
        /\ calls[c][1].status = NOT_FOUND
        /\ ~calls[c][1].injected
        /\ Raised(c, NOT_FOUND)

\* The response on record carries a message / carries none.
HasMessage(c) == resp[c].event = "present" /\ resp[c].message \in {"nodata", "data"}

\* C7: pull(subscription, block), when the response carries a message,
\* issues exactly one pull call with body {subscription: the scoped name,
\* returnImmediately: not block}, then exactly one acknowledge call with
\* body {subscription: the same name, ackId: [the ackId of that response]};
\* when it returns, it returns the decoded payload of that message, and it
\* does return when the acknowledge succeeds and the payload is base64 text.
C7_PullWithMessage ==
    \A c \in Clients :
        (Done(c, "pull") /\ calls[c][1].status = OK /\ HasMessage(c)) =>
        LET full == ScopedSubscription(c, args[c].subscription)
            cs == calls[c]
        IN /\ Len(cs) = 2
           /\ cs[1].api = "subscriptions.pull"
           /\ cs[1].arg = [body |-> [subscription |-> full,
                                     returnImmediately |-> ~args[c].block]]
           /\ cs[2].api = "subscriptions.acknowledge"
           /\ cs[2].arg = [body |-> [subscription |-> full,
                                     ackId |-> << resp[c].ackId >>]]
           /\ (result[c].kind = "return" =>
                  /\ result[c].hasValue
                  /\ resp[c].message = "data"
                  /\ result[c].value = b64decode(resp[c].data).bytes)
           /\ \A m \in Messages :
                  (cs[2].status = OK /\ resp[c].message = "data"
                   /\ resp[c].data = b64encode(m))
                  => result[c] = ReturnValue(m)

C7_Witness ==
    \E c \in Clients :
        /\ Done(c, "pull")
        /\ args[c].block
        /\ resp[c].message = "data"
        /\ resp[c].data = << 0, 15, 60, 64 >>
        /\ resp[c].ackId = "abc"
        /\ Len(calls[c]) = 2
        /\ calls[c][2].status = OK
        /\ result[c] = ReturnValue(<< 0, 255 >>)

\* C8: pull, for every successful response that carries no message (the
\* 'message' entry missing or empty, or the 'pubsubEvent' entry missing),
\* returns None without raising and issues no acknowledge call.
C8_PullNoMessage ==
    \A c \in Clients :
        (Done(c, "pull") /\ calls[c][1].status = OK /\ ~HasMessage(c)) =>
        /\ result[c] = Return
        /\ Issued(c, "subscriptions.acknowledge") = 0

\* C9: in pull, when the acknowledge call fails, its error reaches the
\* caller, there is no second acknowledge, and no payload is returned; so
\* every payload pull returns is of a message whose acknowledge succeeded.
C9_AckFailure ==
    \A c \in Clients : Done(c, "pull") =>
        /\ \A i \in DOMAIN calls[c] :
              (calls[c][i].api = "subscriptions.acknowledge"
               /\ calls[c][i].status # OK)
              => /\ Raised(c, calls[c][i].status)
                 /\ Issued(c, "subscriptions.acknowledge") = 1
                 /\ i = Len(calls[c])
        /\ result[c].hasValue =>
              /\ Len(calls[c]) = 2
              /\ calls[c][2].api = "subscriptions.acknowledge"
              /\ calls[c][2].status = OK

C9_Witness ==
    \E c \in Clients :
        /\ Done(c, "pull")
        /\ resp[c].message = "data"
        /\ b64decode(resp[c].data).ok
        /\ Len(calls[c]) = 2
        /\ calls[c][2].api = "subscriptions.acknowledge"
        /\ calls[c][2].status = BAD_REQUEST
        /\ Raised(c, BAD_REQUEST)

\* C10: get_client raises, before any step of the credential exchange or
\* service construction, whenever credentials is not supplied and the
\* (service_account, private_key) pair is incomplete; otherwise it returns
\* a client that holds the built service and the given project_id.
Supplied(x) == x # None /\ x # Empty

Undecodable(c) == HasMessage(c) /\ ~pull_decode(resp[c]).ok

\* C11: in pull, when the response carries a message, the payload is
\* decoded first, the acknowledge call is issued only after the decode,
\* and the return comes last; so every acknowledge call on record is for a
\* payload that decoded, and a message whose payload cannot be decoded is
\* never acknowledged to the broker.
C11_DecodeBeforeAck ==
    \A c \in Clients :
        (Done(c, "pull") /\ calls[c][1].status = OK) =>
        /\ Undecodable(c) => Issued(c, "subscriptions.acknowledge") = 0
        /\ Issued(c, "subscriptions.acknowledge") > 0 =>
              pull_decode(resp[c]).ok

\* Every remote call on record was answered from the state of the broker.
Unforced(c) == \A i \in DOMAIN calls[c] : ~calls[c][i].injected

\* The lookup of the call on record found the resource absent.
FoundAbsent(c) == Len(calls[c]) = 2 /\ calls[c][1].status = NOT_FOUND

\* C12: create_topic(t), and likewise subscribe(name, topic), on a resource
\* its lookup found absent returns without error and leaves the resource
\* there exactly once, however the lookup and create steps of uncoordinated
\* clients interleave, against a broker that answers from its state and
\* rejects the creation of an existing resource with a non-404 error.
C12_InterleavedReconciliation ==
    \A c \in Clients :
        /\ (Done(c, "create_topic") /\ FoundAbsent(c) /\ Unforced(c)) =>
              /\ result[c] = Return
              /\ ScopedTopic(c, args[c].name) \in topics
        /\ (Done(c, "subscribe") /\ FoundAbsent(c) /\ Unforced(c)) =>
              /\ result[c] = Return
              /\ Cardinality({s \in subscriptions :
                     s.name = ScopedSubscription(c, args[c].name)}) = 1

\* C13: the data publish(topic, m) sends is an encoding of m that pull
\* turns back into m: when the broker hands the published data back
\* unchanged in a pull response and the acknowledge succeeds, pull returns
\* exactly m, for every byte string m, the empty one included.
C13_RoundTrip ==
    \A c, d \in Clients :
        (/\ Published(d)
         /\ Done(c, "pull")
         /\ HasMessage(c)
         /\ resp[c].data = PublishedData(d)
         /\ Len(calls[c]) = 2
         /\ calls[c][2].status = OK)
        => result[c] = ReturnValue(args[d].message)

C13_Witness ==
    \E c, d \in Clients :
        /\ Published(d)
        /\ args[d].message = << 255, 10, 128 >>
        /\ Done(c, "pull")
        /\ HasMessage(c)
        /\ resp[c].data = PublishedData(d)
        /\ resp[c].data = << 63, 48, 42, 0 >>
        /\ Len(calls[c]) = 2
        /\ calls[c][2].status = OK
        /\ result[c] = ReturnValue(<< 255, 10, 128 >>)

====
